---------------------------- MODULE Spec2Model ----------------------------
(***************************************************************************)
(* Model of map_directory.py: the ignore-rule resolver                     *)
(* (load_gitignore_patterns, should_ignore), the tree walker               *)
(* (map_directory) with its modification-time cache, and the cache-file    *)
(* handling of main.                                                       *)
(*                                                                         *)
(* Strings are sequences of character codes, so that lower-casing, string  *)
(* comparison, stripping and glob matching are computed, not assumed.      *)
(* A path below the scan root is the sequence of its components; the scan  *)
(* root is <<>>.                                                           *)
(***************************************************************************)
EXTENDS Integers, Sequences, FiniteSets, TLC

VARIABLES
    chain,      \* directories from "/" down to the scan root: .git marker, .gitignore file
    fs,         \* the entries below the scan root
    clock,      \* filesystem time: every change stamps the next value
    cache,      \* the mapping handed to map_directory (main's local `cache`)
    scans,      \* number of map_directory calls so far
    last,       \* record of the latest map_directory call
    prev,       \* record of the call before it
    cache_json, \* what the cache file holds (meaningful while the file exists)
    changes,    \* number of changes made to the tree by others
    proc,       \* the running main: "idle", or "loaded"/"scanned" with its --use-cache
    patterns    \* latest result of load_gitignore_patterns

vars == <<chain, fs, clock, cache, scans, last, prev, cache_json, changes, proc, patterns>>

-----------------------------------------------------------------------------
(* Bounds *)

MaxSteps    == 3    \* map_directory calls and changes by others, per behaviour
MaxChainLen == 4    \* directories from "/" to the scan root, for load_gitignore_patterns

-----------------------------------------------------------------------------
(* Character codes and strings *)

Slash  == <<47>>                     \* "/"
Dot    == <<46>>                     \* "."
Star   == <<42>>                     \* "*"
Quest  == <<63>>                     \* "?"
Hash   == <<35>>                     \* "#"
Blanks == {9, 10, 11, 12, 13, 32}    \* what str.strip() removes

s_d        == <<100>>                                  \* "d"
s_e        == <<101>>                                  \* "e"
s_x        == <<120>>                                  \* "x"
s_a_py     == <<97, 46, 112, 121>>                     \* "a.py"
s_B_md     == <<66, 46, 109, 100>>                     \* "B.md"
s_venv     == <<118, 101, 110, 118>>                   \* "venv"
s_git      == <<46, 103, 105, 116>>                    \* ".git"
s_vscode   == <<46, 118, 115, 99, 111, 100, 101>>      \* ".vscode"
s_pycache  == <<95, 95, 112, 121, 99, 97, 99, 104, 101, 95, 95>>   \* "__pycache__"
s_node_modules == <<110, 111, 100, 101, 95, 109, 111, 100, 117, 108, 101, 115>> \* "node_modules"
s_py       == <<46, 112, 121>>                         \* ".py"
s_md       == <<46, 109, 100>>                         \* ".md"
s_txt      == <<46, 116, 120, 116>>                    \* ".txt"
\* ".dir_mapper_cache.json"
s_cache_file == <<46, 100, 105, 114, 95, 109, 97, 112, 112, 101, 114, 95,
                  99, 97, 99, 104, 101, 46, 106, 115, 111, 110>>
\* str(root_path) of the scans: "/g/p/r"
RootStr    == <<47, 103, 47, 112, 47, 114>>

\* str.lower() on ASCII: 'A'..'Z' map to 'a'..'z'
LowerChar(c) == IF c >= 65 /\ c <= 90 THEN c + 32 ELSE c
Lower(s) == [i \in 1..Len(s) |-> LowerChar(s[i])]

\* Python's < and <= on strings: lexicographic on code points
RECURSIVE StrLess(_, _)
StrLess(s, t) ==
    IF t = <<>> THEN FALSE
    ELSE IF s = <<>> THEN TRUE
    ELSE IF Head(s) # Head(t) THEN Head(s) < Head(t)
    ELSE StrLess(Tail(s), Tail(t))

StrLE(s, t) == s = t \/ StrLess(s, t)

\* str.strip()
RECURSIVE LStrip(_)
LStrip(s) == IF s # <<>> /\ Head(s) \in Blanks THEN LStrip(Tail(s)) ELSE s

RECURSIVE RStrip(_)
RStrip(s) ==
    IF s # <<>> /\ s[Len(s)] \in Blanks THEN RStrip(SubSeq(s, 1, Len(s) - 1)) ELSE s

Strip(s) == RStrip(LStrip(s))

StartsWith(s, p) == Len(s) >= Len(p) /\ SubSeq(s, 1, Len(p)) = p

\* fnmatch.fnmatch on a POSIX host (normcase is the identity): '*' matches
\* any run of characters, '?' exactly one, anything else itself.  The
\* patterns of this model hold no '[', so character classes do not occur.
RECURSIVE fnmatch(_, _)
fnmatch(name, pat) ==
    IF pat = <<>> THEN name = <<>>
    ELSE IF <<Head(pat)>> = Star
         THEN fnmatch(name, Tail(pat))
              \/ (name # <<>> /\ fnmatch(Tail(name), pat))
    ELSE /\ name # <<>>
         /\ (<<Head(pat)>> = Quest \/ Head(pat) = Head(name))
         /\ fnmatch(Tail(name), Tail(pat))

\* pathlib: PurePath.suffix of a file name
RECURSIVE LastDot(_, _)
LastDot(name, i) ==
    IF i = 0 THEN 0 ELSE IF <<name[i]>> = Dot THEN i ELSE LastDot(name, i - 1)

Suffix(name) ==
    LET i == LastDot(name, Len(name))
    IN  IF i > 1 /\ i < Len(name) THEN SubSeq(name, i, Len(name)) ELSE <<>>

SUPPORTED_DOCS_EXTENSIONS == {s_md, s_txt}

-----------------------------------------------------------------------------
(* The directories above the scan root: load_gitignore_patterns *)

\* chain[1] is "/", chain[Len(chain)] is root_path.  Each level tells
\* whether it holds a .git directory and what its .gitignore file is.
NoGitignore == [exists |-> FALSE, readable |-> TRUE, lines |-> <<>>]

Parent(i) == IF i = 1 THEN 1 ELSE i - 1            \* Path("/").parent == Path("/")

\* root_path.parents: the proper ancestors, nearest first
Parents(c) == [k \in 1..(Len(c) - 1) |-> Len(c) - k]

InSeq(x, sq) == \E k \in 1..Len(sq) : sq[k] = x

\* lines 103-110: the lines of one .gitignore that are kept
RECURSIVE KeptLines(_)
KeptLines(lines) ==
    IF lines = <<>> THEN <<>>
    ELSE LET stripped == Strip(Head(lines))
         IN  (IF stripped # <<>> /\ ~StartsWith(stripped, Hash)
              THEN <<stripped>> ELSE <<>>) \o KeptLines(Tail(lines))

ReadGitignore(f) ==
    IF f.exists /\ f.readable THEN KeptLines(f.lines) ELSE <<>>

\* lines 91-95: walk upward until a directory holds .git; 0 when none does
RECURSIVE FindGitRoot(_, _)
FindGitRoot(c, current_path) ==
    IF Parent(current_path) = current_path THEN 0
    ELSE IF c[current_path].git THEN current_path
    ELSE FindGitRoot(c, Parent(current_path))

\* lines 100-113: walk back down from git_root
RECURSIVE SearchDown(_, _, _)
SearchDown(c, search_path, pats) ==
    IF search_path # Parent(Len(c)) /\ InSeq(search_path, Parents(c))
    THEN LET found == pats \o ReadGitignore(c[search_path].gitignore)
             next  == SelectSeq(Parents(c), LAMBDA p : Parent(p) = search_path)
         IN  IF next = <<>> THEN found ELSE SearchDown(c, next[1], found)
    ELSE pats

load_gitignore_patterns(c) ==
    LET git_root == FindGitRoot(c, Len(c))
    IN  IF git_root = 0 THEN <<>> ELSE SearchDown(c, git_root, <<>>)

\* lines 117-121, for a path given by its base name and its str()
should_ignore(name, str, ignore_patterns) ==
    \E pattern \in ignore_patterns : fnmatch(name, pattern) \/ fnmatch(str, pattern)

Range(sq) == {sq[k] : k \in 1..Len(sq)}

base_ignore == {s_git, s_vscode, s_pycache, s_node_modules, s_venv}

\* lines 124-126
effective_patterns(c, args) ==
    args.ignore \cup base_ignore
        \cup (IF args.use_gitignore THEN Range(load_gitignore_patterns(c)) ELSE {})

-----------------------------------------------------------------------------
(* The entries below the scan root *)

Root    == <<>>
P_d     == <<s_d>>
P_venv  == <<s_venv>>
P_a     == <<s_a_py>>
P_B     == <<s_B_md>>
P_cache == <<s_cache_file>>          \* cache_file = root_path / ".dir_mapper_cache.json"
P_dx    == <<s_d, s_x>>
P_de    == <<s_d, s_e>>

Files    == {P_a, P_B, P_cache, P_dx}
Dirs     == {P_d, P_venv, P_de}
Paths    == Files \cup Dirs          \* what may exist below the root
AllPaths == Paths \cup {Root}

\* regular files and directories only (the two kinds of TreeNode)
KindOf(p) == IF p \in Files THEN "file" ELSE "directory"

Name(p)   == p[Len(p)]                              \* Path.name
DirOf(p)  == SubSeq(p, 1, Len(p) - 1)               \* Path.parent
IsUnder(p, q) == Len(p) > Len(q) /\ SubSeq(p, 1, Len(q)) = q

\* str(path): the components joined with "/" after str(root_path)
RECURSIVE Str(_)
Str(p) == IF p = <<>> THEN RootStr ELSE Str(DirOf(p)) \o Slash \o Name(p)

\* os.scandir / os.walk: the entries of a directory
Listing(f, dir) == {p \in Paths : DirOf(p) = dir /\ f[p].present}

\* line 156: key=lambda e: (e.is_file(), e.name.lower())
sort_key_nolower(f, p) == <<f[p].kind = "file", Name(p)>>
sort_key(f, p) == <<f[p].kind = "file", Lower(Name(p))>>

\* tuple comparison of two keys (False < True, then the strings)
KeyLE(k1, k2) ==
    IF k1[1] # k2[1] THEN ~k1[1] ELSE StrLE(k1[2], k2[2])

\* sorted(...): ascending by key
RECURSIVE Sorted(_, _)
Sorted(f, S) ==
    IF S = {} THEN <<>>
    ELSE LET m == CHOOSE x \in S : \A y \in S : KeyLE(sort_key(f, x), sort_key(f, y))
         IN  <<m>> \o Sorted(f, S \ {m})

-----------------------------------------------------------------------------
(* Content summaries *)

Summary(tag, src, msg) == [tag |-> tag, src |-> src, msg |-> msg]

\* lines 50-69: the imports and definitions of the text, or the error record
parse_python_file(content) ==
    IF content.text = "syntax_error"
    THEN Summary("error", 0, "SyntaxError parsing file.")
    ELSE Summary("python", content.id, "")

\* lines 71-73
parse_markdown_file(content) == Summary("headers", content.id, "")

\* lines 75-84
get_intelligent_summary(name, content) ==
    LET ext == Lower(Suffix(name))
    IN  IF ext = s_py THEN parse_python_file(content)
        ELSE IF ext \in SUPPORTED_DOCS_EXTENSIONS THEN parse_markdown_file(content)
        ELSE Summary("preview", content.id, "")

-----------------------------------------------------------------------------
(* map_directory *)

\* args.depth is <<>> for None and <<n>> for the integer n
depth_reached(args, depth) == args.depth # <<>> /\ depth >= args.depth[1]

\* lines 132-143: what the os.walk pre-pass adds to stats["skipped"].
\* os.walk yields nothing for a directory it cannot list; each dirname is
\* tested as Path(d), whose name and str() are both d.
RECURSIVE PrePass(_, _, _, _)
PrePass(f, args, pats, dirpath) ==
    IF ~f[dirpath].perm THEN 0
    ELSE LET original_dirs == {p \in Listing(f, dirpath) : f[p].kind = "directory"}
             dirnames == {p \in original_dirs : ~should_ignore(Name(p), Name(p), pats)}
             pruned   == depth_reached(args, Len(dirpath))
             descend  == IF pruned THEN {} ELSE dirnames
             RECURSIVE Sum(_)
             Sum(S) == IF S = {} THEN 0
                       ELSE LET q == CHOOSE x \in S : TRUE
                            IN  PrePass(f, args, pats, q) + Sum(S \ {q})
         IN  (Cardinality(original_dirs) - Cardinality(dirnames))
             + (IF pruned THEN Cardinality(dirnames) ELSE 0)
             + Sum(descend)

\* line 168: the cached node is reused
cache_valid_inverted(args, c, p, mod_time) ==
    args.use_cache /\ p \in DOMAIN c /\ c[p].mtime # mod_time
cache_valid(args, c, p, mod_time) ==
    args.use_cache /\ p \in DOMAIN c /\ c[p].mtime = mod_time

\* line 198: cache[str(entry_path)] = {"mtime": mod_time, "node": file_node}.
\* Keys are paths; str() is one-to-one on them.
cache_put_only(c, key, mod_time, node) ==
    [k \in {key} |-> [mtime |-> mod_time, node |-> node]]
cache_put(c, key, mod_time, node) ==
    [k \in DOMAIN c \cup {key} |->
        IF k = key THEN [mtime |-> mod_time, node |-> node] ELSE c[k]]

\* lines 171-177 and 182: the fresh nodes
new_dir_node(p, mod_time) ==
    [name |-> Name(p), path |-> Str(p), mtime |-> mod_time,
     type |-> "directory", children |-> <<>>]

new_file_node(p, mod_time, size, summary) ==
    [name |-> Name(p), path |-> Str(p), mtime |-> mod_time,
     type |-> "file", size |-> size, summary |-> summary]

\* lines 186-195: the summary of a fresh file node
file_summary(f, args, p) ==
    IF args.no_content THEN Summary("omitted", 0, "Content omitted by user.")
    ELSE IF ~f[p].perm THEN Summary("error", 0, "Could not read or parse file.")
    ELSE get_intelligent_summary(Name(p), f[p].content)

\* lines 160-200, one iteration of the for loop.  The walk state st holds
\* node_stack, stats, the cache and, for every directory node built in this
\* call, the children appended to it so far (kids); hits, fresh and stored
\* record which entries were reused, built and written to the cache.
ProcessEntry(f, args, pats, vanished, st, parent, p, depth) ==
    IF should_ignore(Name(p), Str(p), pats)
    THEN [st EXCEPT !.stats.skipped = @ + 1]
    ELSE IF p \in vanished                      \* line 167: entry.stat() raises
    THEN [st EXCEPT !.raised = TRUE]
    ELSE
    LET mod_time == f[p].mtime
        hit      == cache_valid(args, st.cache, p, mod_time)
        is_dir   == f[p].kind = "directory"
        file_node ==
            IF hit THEN st.cache[p].node
            ELSE IF is_dir THEN new_dir_node(p, mod_time)
            ELSE new_file_node(p, mod_time, f[p].size, file_summary(f, args, p))
        st1 == IF hit THEN [st EXCEPT !.hits = @ \cup {p}]
               ELSE IF is_dir
               THEN [st EXCEPT !.stats.dirs = @ + 1,
                               !.stack = Append(@, [path |-> p, depth |-> depth + 1]),
                               !.fresh = @ \cup {p}]
               ELSE [st EXCEPT !.stats.files = @ + 1,
                               !.stats.size = @ + f[p].size,
                               !.reads = IF args.no_content THEN @ ELSE @ + 1,
                               !.fresh = @ \cup {p}]
        st2 == IF args.use_cache
               THEN [st1 EXCEPT !.cache = cache_put(@, p, mod_time, file_node),
                                !.stored = @ \cup {p}]
               ELSE st1
    IN  [st2 EXCEPT !.kids[parent] = Append(@, [p |-> p, node |-> file_node])]

RECURSIVE ProcessEntries(_, _, _, _, _, _, _, _)
ProcessEntries(f, args, pats, vanished, st, parent, entries, depth) ==
    IF entries = <<>> \/ st.raised THEN st
    ELSE ProcessEntries(f, args, pats, vanished,
             ProcessEntry(f, args, pats, vanished, st, parent, Head(entries), depth),
             parent, Tail(entries), depth)

\* lines 149-200: the while loop over node_stack
RECURSIVE WalkLoop(_, _, _, _, _)
WalkLoop(f, args, pats, vanished, st) ==
    IF st.stack = <<>> \/ st.raised THEN st
    ELSE LET top    == st.stack[Len(st.stack)]
             popped == [st EXCEPT !.stack = SubSeq(@, 1, Len(@) - 1)]
         IN  IF depth_reached(args, top.depth) THEN WalkLoop(f, args, pats, vanished, popped)
             ELSE IF ~f[top.path].perm THEN WalkLoop(f, args, pats, vanished, popped)
             ELSE WalkLoop(f, args, pats, vanished,
                      ProcessEntries(f, args, pats, vanished, popped, top.path,
                                     Sorted(f, Listing(f, top.path)), top.depth))

\* A node built in this call is the object its parent's list, the stack and
\* the cache all refer to: its children are those appended by the end.
RECURSIVE Complete(_, _)
Complete(st, kid) ==
    IF kid.p \in st.fresh /\ kid.node.type = "directory"
    THEN [kid.node EXCEPT !.children =
             [i \in 1..Len(st.kids[kid.p]) |-> Complete(st, st.kids[kid.p][i])]]
    ELSE kid.node

\* line 128 with the children of the root appended
RootNode(st) ==
    [name |-> <<114>>, path |-> RootStr, type |-> "directory",
     children |-> [i \in 1..Len(st.kids[Root]) |-> Complete(st, st.kids[Root][i])]]

FinalCache(st) ==
    [k \in DOMAIN st.cache |->
        IF k \in st.stored
        THEN [mtime |-> st.cache[k].mtime,
              node  |-> Complete(st, [p |-> k, node |-> st.cache[k].node])]
        ELSE st.cache[k]]

\* line 203: what the call hands back, or that an exception left it
ScanResult(fin, pats) ==
    [outcome  |-> IF fin.raised THEN "raised" ELSE "returned",
     tree     |-> RootNode(fin),
     stats    |-> fin.stats,
     cache    |-> FinalCache(fin),
     reads    |-> fin.reads,
     hits     |-> fin.hits,
     fresh    |-> fin.fresh,
     patterns |-> pats]

\* lines 123-203
map_directory(c, f, args, cache0, vanished) ==
    LET pats == effective_patterns(c, args)
        st0  == [stack  |-> <<[path |-> Root, depth |-> 0]>>,
                 kids   |-> [q \in AllPaths |-> <<>>],
                 stats  |-> [files |-> 0, dirs |-> 0, size |-> 0, tokens |-> 0,
                             skipped |-> PrePass(f, args, pats, Root)],
                 cache  |-> cache0,
                 reads  |-> 0,
                 raised |-> FALSE,
                 hits   |-> {}, fresh |-> {}, stored |-> {}]
    IN  ScanResult(WalkLoop(f, args, pats, vanished, st0), pats)

-----------------------------------------------------------------------------
(* Inputs *)

s_star_d_x == <<42, 47, 100, 47, 120>>               \* "*/d/x"

Args(ignore, depth, use_gitignore, no_content, use_cache) ==
    [ignore |-> ignore, depth |-> depth, use_gitignore |-> use_gitignore,
     no_content |-> no_content, use_cache |-> use_cache]

\* the command lines tried
ArgsSet ==
    { Args({}, <<>>, FALSE, FALSE, TRUE),            \* --no-gitignore --use-cache
      Args({}, <<>>, FALSE, FALSE, FALSE),           \* --no-gitignore
      Args({s_star_d_x}, <<>>, FALSE, FALSE, TRUE),  \* -i "*/d/x" --no-gitignore --use-cache
      Args({}, <<1>>, FALSE, FALSE, FALSE),          \* -d 1 --no-gitignore
      Args({}, <<>>, TRUE, TRUE, TRUE) }             \* --no-content --use-cache

\* the calls tried: a command line, and the listed entries that are gone
\* by the time entry.stat() is called on them
ScanInputs ==
    {<<a, {}>> : a \in ArgsSet} \cup {<<Args({}, <<>>, FALSE, FALSE, FALSE), {P_a}>>}

\* the lines of a .gitignore file
GitignoreFiles ==
    { NoGitignore,
      [exists |-> TRUE, readable |-> FALSE, lines |-> << <<100, 10>> >>],
      \* "# build\n", "\n", " d \n"
      [exists |-> TRUE, readable |-> TRUE,
       lines |-> << <<35, 32, 98, 10>>, <<10>>, <<32, 100, 32, 10>> >>],
      \* "*.md\n"
      [exists |-> TRUE, readable |-> TRUE, lines |-> << <<42, 46, 109, 100, 10>> >>] }

Level(git, gitignore) == [git |-> git, gitignore |-> gitignore]

\* "/", "/g" (the repository, with a .gitignore), "/g/p", "/g/p/r" (the scan root)
ScanChain ==
    << Level(FALSE, NoGitignore),
       Level(TRUE, [exists |-> TRUE, readable |-> TRUE,
                    lines |-> << <<35, 32, 98, 10>>, <<10>>, <<32, 100, 32, 10>> >>]),
       Level(FALSE, NoGitignore),
       Level(FALSE, NoGitignore) >>

-----------------------------------------------------------------------------
(* States *)

Entry(present, kind, mtime, perm, id, text, size) ==
    [present |-> present, kind |-> kind, mtime |-> mtime, perm |-> perm,
     content |-> [id |-> id, text |-> text], size |-> size]

Missing(p) == Entry(FALSE, KindOf(p), 0, TRUE, 0, "ok", 0)

Written(p, t, text) ==
    IF KindOf(p) = "file" THEN Entry(TRUE, "file", t, TRUE, t, text, t + Len(Name(p)))
    ELSE Entry(TRUE, "directory", t, TRUE, 0, "ok", 0)

EmptyCache == [k \in {} |-> [mtime |-> 0, node |-> <<>>]]

InitFs ==
    [p \in AllPaths |->
        IF p \in {P_cache, P_de} THEN Missing(p)
        ELSE IF p = Root THEN Entry(TRUE, "directory", 0, TRUE, 0, "ok", 0)
        ELSE Written(p, 0, "ok")]

NoScan ==
    [outcome |-> "none", args |-> Args({}, <<>>, FALSE, FALSE, FALSE),
     tree |-> <<>>, stats |-> <<>>, reads |-> 0, hits |-> {}, fresh |-> {},
     patterns |-> {}, fs |-> InitFs, cache0 |-> EmptyCache, cache1 |-> EmptyCache,
     vanished |-> {}]

NoPatterns == [loaded |-> FALSE, result |-> <<>>]

Idle == [state |-> "idle", use_cache |-> FALSE]

Init ==
    /\ chain = ScanChain
    /\ fs = InitFs
    /\ clock = 0
    /\ cache = EmptyCache
    /\ cache_json = EmptyCache
    /\ scans = 0
    /\ changes = 0
    /\ proc = Idle
    /\ last = NoScan
    /\ prev = NoScan
    /\ patterns = NoPatterns

-----------------------------------------------------------------------------
(* main and map_directory *)

\* lines 278-285: cache = {}; --clear-cache removes the cache file;
\* --use-cache loads it when it exists
MainStart(clear_cache, use_cache) ==
    LET removed == clear_cache /\ fs[P_cache].present
        exists  == fs[P_cache].present /\ ~removed
    IN  /\ proc.state = "idle" /\ scans + changes < MaxSteps
        /\ proc' = [state |-> "loaded", use_cache |-> use_cache]
        /\ fs' = IF removed THEN [fs EXCEPT ![P_cache] = Missing(P_cache),
                                            ![Root].mtime = clock + 1]
                 ELSE fs
        /\ clock' = IF removed THEN clock + 1 ELSE clock
        /\ cache' = IF use_cache /\ exists THEN cache_json ELSE EmptyCache
        /\ UNCHANGED <<chain, scans, last, prev, cache_json, changes, patterns>>

\* line 288: tree, stats = map_directory(root_path, args, cache).  A caller
\* holding the mapping may call again; an exception ends the process.
MapDirectory(args, vanished) ==
    /\ scans + changes < MaxSteps
    /\ proc.state # "idle" /\ args.use_cache = proc.use_cache
    /\ vanished \subseteq {p \in Paths : fs[p].present}
    /\ \E r \in {map_directory(chain, fs, args, cache, vanished)} :
           /\ cache' = IF r.outcome = "raised" THEN EmptyCache ELSE r.cache
           /\ proc' = IF r.outcome = "raised" THEN Idle ELSE [proc EXCEPT !.state = "scanned"]
           /\ last' = [outcome |-> r.outcome, args |-> args, tree |-> r.tree,
                       stats |-> r.stats, reads |-> r.reads, hits |-> r.hits,
                       fresh |-> r.fresh, patterns |-> r.patterns, fs |-> fs,
                       cache0 |-> cache, cache1 |-> r.cache, vanished |-> vanished]
    /\ prev' = last
    /\ scans' = scans + 1
    /\ UNCHANGED <<chain, fs, clock, cache_json, changes, patterns>>

\* lines 316-329 and the end of main: with --use-cache, json.dump(cache)
\* into the cache file, which lies in the scanned directory.  What json.dump
\* writes, json.load reads back equal: string keys, numbers, strings, lists
\* and objects.  The map itself (args.output) goes to the working directory,
\* taken to lie outside the scanned one.
MainFinish ==
    /\ proc.state = "scanned"
    /\ proc' = Idle
    /\ cache' = EmptyCache
    /\ IF proc.use_cache
       THEN /\ cache_json' = cache
            /\ fs' = [fs EXCEPT ![P_cache] = Written(P_cache, clock + 1, "ok"),
                                ![Root].mtime = IF fs[P_cache].present THEN @ ELSE clock + 1]
            /\ clock' = clock + 1
       ELSE UNCHANGED <<cache_json, fs, clock>>
    /\ UNCHANGED <<chain, scans, last, prev, changes, patterns>>

-----------------------------------------------------------------------------
(* What others do to the tree between and around the scans *)

WriteInputs   == {<<P_a, "syntax_error">>, <<P_dx, "ok">>}
RemoveTargets == {P_d, P_dx, P_venv}
CreateTargets == {P_de, P_dx}
ChmodTargets  == {P_d, P_a}

\* a file gets new content, and with it a new modification time
WriteFile(p, text) ==
    /\ scans + changes < MaxSteps
    /\ fs[p].present /\ fs[p].kind = "file"
    /\ fs' = [fs EXCEPT ![p] = Written(p, clock + 1, text)]
    /\ clock' = clock + 1 /\ changes' = changes + 1
    /\ UNCHANGED <<chain, cache, scans, last, prev, cache_json, proc, patterns>>

\* an entry is removed with all below it; its directory is stamped
Remove(p) ==
    /\ scans + changes < MaxSteps
    /\ fs[p].present
    /\ fs' = [q \in AllPaths |->
                IF q = p \/ IsUnder(q, p) THEN Missing(q)
                ELSE IF q = DirOf(p) THEN [fs[q] EXCEPT !.mtime = clock + 1]
                ELSE fs[q]]
    /\ clock' = clock + 1 /\ changes' = changes + 1
    /\ UNCHANGED <<chain, cache, scans, last, prev, cache_json, proc, patterns>>

\* an entry is created in an existing directory, which is stamped
Create(p) ==
    /\ scans + changes < MaxSteps
    /\ ~fs[p].present /\ fs[DirOf(p)].present
    /\ fs' = [fs EXCEPT ![p] = Written(p, clock + 1, "ok"),
                        ![DirOf(p)].mtime = clock + 1]
    /\ clock' = clock + 1 /\ changes' = changes + 1
    /\ UNCHANGED <<chain, cache, scans, last, prev, cache_json, proc, patterns>>

\* the permission to list a directory or read a file is withdrawn or given
\* back; this leaves the modification time alone
Chmod(p) ==
    /\ scans + changes < MaxSteps
    /\ fs[p].present
    /\ fs' = [fs EXCEPT ![p].perm = ~@]
    /\ changes' = changes + 1
    /\ UNCHANGED <<chain, clock, cache, scans, last, prev, cache_json, proc, patterns>>

Next ==
    \/ \E clear_cache \in BOOLEAN, use_cache \in BOOLEAN : MainStart(clear_cache, use_cache)
    \/ \E i \in ScanInputs : MapDirectory(i[1], i[2])
    \/ MainFinish
    \/ \E w \in WriteInputs : WriteFile(w[1], w[2])
    \/ \E p \in RemoveTargets : Remove(p)
    \/ \E p \in CreateTargets : Create(p)
    \/ \E p \in ChmodTargets : Chmod(p)

Spec == Init /\ [][Next]_vars

-----------------------------------------------------------------------------
(* load_gitignore_patterns on its own, over every chain of directories *)

Levels == [git : BOOLEAN, gitignore : GitignoreFiles]

ChainConfigs == UNION {[1..n -> Levels] : n \in 1..MaxChainLen}

InitGit ==
    /\ chain \in ChainConfigs
    /\ fs = InitFs
    /\ clock = 0
    /\ cache = EmptyCache
    /\ cache_json = EmptyCache
    /\ scans = 0
    /\ changes = 0
    /\ proc = Idle
    /\ last = NoScan
    /\ prev = NoScan
    /\ patterns = NoPatterns

\* line 125: gitignore_patterns = load_gitignore_patterns(root_path)
LoadGitignore ==
    /\ ~patterns.loaded
    /\ patterns' = [loaded |-> TRUE, result |-> load_gitignore_patterns(chain)]
    /\ UNCHANGED <<chain, fs, clock, cache, scans, last, prev, cache_json, changes, proc>>

NextGit == LoadGitignore

SpecGit == InitGit /\ [][NextGit]_vars

-----------------------------------------------------------------------------
(* Reading a returned tree *)

RECURSIVE NodesOf(_)
NodesOf(n) ==
    {n} \cup (IF n.type = "directory"
              THEN UNION {NodesOf(n.children[i]) : i \in 1..Len(n.children)}
              ELSE {})

HasNode(tree, p) == \E n \in NodesOf(tree) : n.path = Str(p)
NodeAt(tree, p)  == CHOOSE n \in NodesOf(tree) : n.path = Str(p)

\* name, path, type and times of a node, without what hangs below it
Shallow(n) == IF n.type = "directory" THEN [n EXCEPT !.children = <<>>] ELSE n

Present(f)    == {p \in Paths : f[p].present}
Returned(s)   == s.outcome = "returned"
Ignored(s, p) == should_ignore(Name(p), Str(p), s.patterns)
Ancestors(p)  == {q \in Paths : IsUnder(p, q)}

\* two calls in a row with the same command line, the second consulting the
\* mapping the first left
CachedPair ==
    /\ Returned(prev) /\ Returned(last)
    /\ prev.args.use_cache /\ last.args = prev.args
    /\ last.cache0 = prev.cache1

-----------------------------------------------------------------------------
(* Claims *)

\* between the two calls exactly the file p got new content and a new time
OnlyChanged(p) ==
    /\ prev.fs[p].present /\ last.fs[p].present /\ last.fs[p].kind = "file"
    /\ last.fs[p].mtime # prev.fs[p].mtime
    /\ last.fs[p].content # prev.fs[p].content
    /\ \A q \in AllPaths \ {p} : last.fs[q] = prev.fs[q]

\* C1: cache invalidation.  When only one file's content and modification
\* time change between two cached scans, the second tree holds for that file
\* a recomputed node (new modification time, size and summary) and every
\* other node is as in the first tree.
C1_CacheInvalidation ==
    \A p \in Files :
        (CachedPair /\ OnlyChanged(p) /\ HasNode(prev.tree, p)) =>
            /\ HasNode(last.tree, p)
            /\ NodeAt(last.tree, p) =
                   new_file_node(p, last.fs[p].mtime, last.fs[p].size,
                                 file_summary(last.fs, last.args, p))
            /\ \A q \in Paths \ {p} :
                   /\ HasNode(last.tree, q) <=> HasNode(prev.tree, q)
                   /\ HasNode(last.tree, q) =>
                          Shallow(NodeAt(last.tree, q)) = Shallow(NodeAt(prev.tree, q))

\* C2: cache idempotence.  Two cached scans with the same options and no
\* filesystem change between them give identical trees, and the second
\* opens no file.
C2_CacheIdempotence ==
    (/\ Returned(prev) /\ Returned(last)
     /\ prev.args.use_cache /\ last.args = prev.args
     /\ last.fs = prev.fs)
        => (last.tree = prev.tree /\ last.reads = 0)

C2_Witness ==
    /\ Returned(prev) /\ Returned(last)
    /\ prev.args.use_cache /\ last.args = prev.args /\ last.fs = prev.fs
    /\ prev.reads > 0 /\ last.reads = 0 /\ last.hits # {}
    /\ HasNode(last.tree, P_dx) /\ last.tree = prev.tree

\* the ignored entries a scan comes across: nothing above them is ignored
\* or closed to listing
MetIgnored(s) ==
    {p \in Present(s.fs) :
        /\ Ignored(s, p)
        /\ \A q \in Ancestors(p) : ~Ignored(s, q) /\ s.fs[q].perm
        /\ s.fs[Root].perm}

\* C3: ignore filtering.  In every scan, cached or not, an entry matching
\* the effective patterns by base name or by full path, and everything
\* beneath it, is absent from the returned tree, and the entry is counted
\* in stats.skipped.
C3_IgnoreFiltering ==
    Returned(last) =>
        /\ \A p \in Present(last.fs) :
               (Ignored(last, p) \/ \E q \in Ancestors(p) : Ignored(last, q))
                   => ~HasNode(last.tree, p)
        /\ (last.args.depth = <<>>) =>
               last.stats.skipped >= Cardinality(MetIgnored(last))

\* the children on disk of the directories the tree holds at depth >= d
BeyondDepth(s, d) ==
    {p \in Present(s.fs) :
        Len(DirOf(p)) >= d /\ (DirOf(p) = Root \/ HasNode(s.tree, DirOf(p)))}

\* C4: depth limiting.  With max_depth d, no directory at depth >= d has a
\* child in the returned tree, and each child of such a directory is
\* counted in stats.skipped.
C4_DepthLimit ==
    (Returned(last) /\ last.args.depth # <<>>) =>
        LET d == last.args.depth[1]
        IN  /\ \A p \in Paths : Len(DirOf(p)) >= d => ~HasNode(last.tree, p)
            /\ last.stats.skipped >=
                   Cardinality(BeyondDepth(last, d)) +
                   Cardinality({p \in MetIgnored(last) : Len(DirOf(p)) < d})

RECURSIVE SumSizes(_, _)
SumSizes(f, S) ==
    IF S = {} THEN 0
    ELSE LET p == CHOOSE x \in S : TRUE IN f[p].size + SumSizes(f, S \ {p})

\* C5: stats on cache hit.  Entries whose node is reused from the cache
\* are counted like freshly built ones: files and size for a file, dirs
\* for a directory.
C5_StatsOnCacheHit ==
    Returned(last) =>
        LET visited == last.hits \cup last.fresh
            files   == {p \in visited : last.fs[p].kind = "file"}
        IN  /\ last.stats.files = Cardinality(files)
            /\ last.stats.dirs = Cardinality(visited \ files)
            /\ last.stats.size = SumSizes(last.fs, files)

\* C6: error containment.  No failure while a directory or a file is
\* processed leaves map_directory: every call returns a tree and stats.
C6_ErrorContainment == last.outcome # "raised"

\* the sort key read off a node of the tree
NodeKey(n) == <<n.type = "file", Lower(n.name)>>

\* C7: child ordering.  In a returned tree the children of every directory
\* node, reused ones included, ascend by (is_file, lowercase(name)).
C7_ChildOrdering ==
    Returned(last) =>
        \A n \in NodesOf(last.tree) :
            n.type = "directory" =>
                \A i \in 1..Len(n.children), j \in 1..Len(n.children) :
                    i < j => KeyLE(NodeKey(n.children[i]), NodeKey(n.children[j]))

C7_Witness ==
    /\ Returned(last) /\ P_d \in last.hits
    /\ Len(last.tree.children) >= 3
    /\ \E i \in 1..Len(last.tree.children) :
           /\ last.tree.children[i].name = s_a_py
           /\ i < Len(last.tree.children)
           /\ last.tree.children[i + 1].name = s_B_md
    /\ Len(NodeAt(last.tree, P_d).children) >= 2

\* what one step does to the store: a call of map_directory, a rewrite of
\* the cache file, a removal of the cache file
StoreStep ==
    /\ scans' = scans + 1 =>
           \A k \in DOMAIN cache :
               /\ k \in DOMAIN last'.cache1
               /\ ~fs[k].present => last'.cache1[k] = cache[k]
    /\ (fs[P_cache].present /\ fs'[P_cache].present) =>
           \A k \in DOMAIN cache_json : k \in DOMAIN cache_json'
    /\ (fs[P_cache].present /\ ~fs'[P_cache].present) => cache' = EmptyCache

\* C9: no eviction.  A scan never removes a key of the mapping and leaves
\* the entry of a path that is gone from disk as it was; rewriting the
\* cache file keeps its keys; only clearing empties the store, and the
\* mapping loaded after a clear is empty.
C9_NoEviction == [][StoreStep]_vars

C9_Witness ==
    /\ Returned(last) /\ last.args.use_cache
    /\ \E k \in DOMAIN last.cache0 :
           /\ ~last.fs[k].present
           /\ k \in DOMAIN last.cache1 /\ last.cache1[k] = last.cache0[k]
    /\ DOMAIN last.cache1 # DOMAIN last.cache0

\* C10: skipped accounting.  Without cache and depth limit, stats.skipped
\* is the number of entries the ignore rules exclude, each counted once.
C10_SkippedAccounting ==
    (Returned(last) /\ ~last.args.use_cache /\ last.args.depth = <<>>) =>
        last.stats.skipped = Cardinality(MetIgnored(last))

\* the nearest directory, from the scan root upward, that holds .git
VcRoot(c) ==
    IF \E i \in 1..Len(c) : c[i].git
    THEN CHOOSE i \in 1..Len(c) : c[i].git /\ \A j \in (i + 1)..Len(c) : ~c[j].git
    ELSE 0

RECURSIVE LinesFrom(_, _)
LinesFrom(c, i) ==
    IF i > Len(c) THEN <<>> ELSE ReadGitignore(c[i].gitignore) \o LinesFrom(c, i + 1)

\* C8: ignore-file chain.  With a version-control root at or above the scan
\* root, load_gitignore_patterns returns the kept lines of the ignore-file
\* of every directory from that root down to the scan root inclusive, in
\* that order; with none it returns the empty list.
C8_IgnoreFileChain ==
    patterns.loaded =>
        patterns.result =
            (IF VcRoot(chain) = 0 THEN <<>> ELSE LinesFrom(chain, VcRoot(chain)))

=============================================================================
